---- MODULE Spec2Model ----
(***************************************************************************)
(* Model of weather.py: one run of main(graph_type) over one CSV file.     *)
(*                                                                         *)
(* A row of the file is a record [y, m, d, v]: the parsed date of column 0 *)
(* and the precipitation of column 1 (an integer number of millimetres).   *)
(* A DataFrame is the sequence of its rows in index order.  A monthly      *)
(* aggregate (the result of resample('M')) is the sequence of its bins in  *)
(* index order, each a record [y, m, val].  A year table (new_df) is the   *)
(* sequence of its columns in column order, each a record [year, vals]     *)
(* where vals[i] is the cell under the i-th month label.                   *)
(*                                                                         *)
(* The plotting libraries are external: a chart is modelled by the name of *)
(* the view that was displayed.  DataFrame.plot.bar refuses a frame without*)
(* columns; the plotly calls draw whatever frame they are given.           *)
(***************************************************************************)
EXTENDS Integers, Sequences, FiniteSets, TLC

VARIABLES file, graph_type, pc, df, start_year, end_year,
          amount_df, count_df, sum_table, count_table,
          pending, shown, err, failed_in

vars == <<file, graph_type, pc, df, start_year, end_year,
          amount_df, count_df, sum_table, count_table,
          pending, shown, err, failed_in>>

----------------------------------------------------------------------------
(* Bounds of the input space.                                              *)

\* longest file of arbitrary rows
MaxRows == 3

\* repetitions of one row (one timestamp) in the long files
Repeats == 32

\* dates that occur in input files: January and February of a leap year,
\* a date one year later and a date two years later
InputDates == {<<2020, 1, 1>>, <<2020, 2, 10>>, <<2021, 1, 15>>, <<2022, 2, 1>>}

\* precipitation values that occur in input files
InputValues == {0, 1, 2}

InputRows == {[y |-> dt[1], m |-> dt[2], d |-> dt[3], v |-> v] :
                dt \in InputDates, v \in InputValues}

ShortFiles == UNION {[1..n -> InputRows] : n \in 0..MaxRows}

\* one row repeated, then at most one other row
RepeatFiles == {[i \in 1..Repeats |-> r] \o tail :
                  r \in InputRows,
                  tail \in {<<>>} \cup {<<t>> : t \in InputRows}}

\* a path that does not exist, or a file with the given rows
InputFiles == {[exists |-> FALSE, rows |-> <<>>]} \cup
              {[exists |-> TRUE, rows |-> f] : f \in ShortFiles \cup RepeatFiles}

----------------------------------------------------------------------------
(* Program constants and values.                                           *)

\* the 12 month labels create_year_df assigns as the new index
MonthLabels == 12

\* rf passed by main to plot_rainy_days_plt
PltThreshold == 1

\* literal threshold in plot_rainy_days_px
PxThreshold == 0

\* default of the rf parameter of plot_rainy_days_plt
DefaultThreshold == 0

GraphTypes == {"plt", "px"}

\* a year that is not a number: min()/max() of an empty index
NaN == [nan |-> TRUE, val |-> 0]

Year(n) == [nan |-> FALSE, val |-> n]

NotComputed == [computed |-> FALSE, rows |-> <<>>]

NotBuilt == [built |-> FALSE, cols |-> <<>>]

----------------------------------------------------------------------------
(* pandas operations used by the program.                                  *)

MonthIndex(y, m) == y * MonthLabels + (m - 1)

RECURSIVE SeqSum(_)
SeqSum(s) == IF s = <<>> THEN 0 ELSE Head(s).v + SeqSum(Tail(s))

RowsOfMonth(frame, mi) == SelectSeq(frame, LAMBDA r : MonthIndex(r.y, r.m) = mi)

SetMin(S) == CHOOSE x \in S : \A z \in S : x <= z

SetMax(S) == CHOOSE x \in S : \A z \in S : x >= z

\* resample that keeps only the months that hold a row (no empty bins)
resample_no_empty_bins(frame, how) ==
    LET idx  == {MonthIndex(frame[i].y, frame[i].m) : i \in 1..Len(frame)}
        RECURSIVE bins(_)
        bins(S) ==
            IF S = {} THEN <<>>
            ELSE LET mi  == SetMin(S)
                     bin == RowsOfMonth(frame, mi)
                 IN  <<[y   |-> mi \div MonthLabels,
                        m   |-> (mi % MonthLabels) + 1,
                        val |-> IF how = "sum" THEN SeqSum(bin) ELSE Len(bin)]>>
                     \o bins(S \ {mi})
    IN  bins(idx)

\* frame.resample('M').sum() / .count(): one bin per calendar month from the
\* month of the earliest row to the month of the latest row, in month order,
\* empty bins included; an empty frame gives an empty result.
resample(frame, how) ==
    IF frame = <<>> THEN <<>>
    ELSE LET idx == {MonthIndex(frame[i].y, frame[i].m) : i \in 1..Len(frame)}
             lo  == SetMin(idx)
             hi  == SetMax(idx)
         IN  [k \in 1..(hi - lo + 1) |->
                LET mi  == lo + k - 1
                    bin == RowsOfMonth(frame, mi)
                IN  [y   |-> mi \div MonthLabels,
                     m   |-> (mi % MonthLabels) + 1,
                     val |-> IF how = "sum" THEN SeqSum(bin) ELSE Len(bin)]]

\* df[df['降水量'] > rf]
filter_above(frame, rf) == SelectSeq(frame, LAMBDA r : r.v > rf)

\* df.index.year.min() and .max(); NaN on an empty index
year_min(frame) ==
    IF frame = <<>> THEN NaN
    ELSE Year(SetMin({frame[i].y : i \in 1..Len(frame)}))

year_max(frame) ==
    IF frame = <<>> THEN NaN
    ELSE Year(SetMax({frame[i].y : i \in 1..Len(frame)}))

----------------------------------------------------------------------------
(* Functions of weather.py.                                                *)

\* a loader that returns an empty frame for a file without rows
read_csv_data_empty_frame(f) ==
    IF ~f.exists THEN [ok |-> FALSE, err |-> "FileNotFoundError", df |-> <<>>]
    ELSE [ok |-> TRUE, err |-> "none", df |-> f.rows]

\* read_csv_data: pd.read_csv raises on a missing path and on a file with
\* no rows; otherwise the rows are returned in file order.
read_csv_data(f) ==
    IF ~f.exists THEN [ok |-> FALSE, err |-> "FileNotFoundError", df |-> <<>>]
    ELSE IF f.rows = <<>> THEN [ok |-> FALSE, err |-> "EmptyDataError", df |-> <<>>]
    ELSE [ok |-> TRUE, err |-> "none", df |-> f.rows]

\* create_year_df with the month labels assigned in reverse order
create_year_df_reversed(agg, yyyy) ==
    LET df_name == SelectSeq(agg, LAMBDA e : e.y = yyyy)
    IN  IF Len(df_name) # MonthLabels
        THEN [ok |-> FALSE, err |-> "ValueError", year |-> yyyy, vals |-> <<>>]
        ELSE [ok |-> TRUE, err |-> "none", year |-> yyyy,
              vals |-> [i \in 1..MonthLabels |-> df_name[MonthLabels + 1 - i].val]]

\* create_year_df: the rows of year yyyy, then the index replaced by the 12
\* month labels position by position; assigning 12 labels to a frame of
\* another length raises ValueError.
create_year_df(agg, yyyy) ==
    LET df_name == SelectSeq(agg, LAMBDA e : e.y = yyyy)
    IN  IF Len(df_name) # MonthLabels
        THEN [ok |-> FALSE, err |-> "ValueError", year |-> yyyy, vals |-> <<>>]
        ELSE [ok |-> TRUE, err |-> "none", year |-> yyyy,
              vals |-> [i \in 1..MonthLabels |-> df_name[i].val]]

\* a year loop that starts one year late
year_range_from_next(s, e) == [i \in 1..(e - s - 1) |-> s + i]

\* range(start_year, end_year, 1)
year_range(s, e) == [i \in 1..(e - s) |-> s + i - 1]

\* the loop "for y in range(...): new_df = pd.concat([new_df, df_name], axis=1)"
RECURSIVE concat_years(_, _, _)
concat_years(agg, ys, new_df) ==
    IF ys = <<>> THEN [ok |-> TRUE, err |-> "none", cols |-> new_df]
    ELSE LET df_name == create_year_df(agg, Head(ys))
         IN  IF ~df_name.ok
             THEN [ok |-> FALSE, err |-> df_name.err, cols |-> new_df]
             ELSE concat_years(agg, Tail(ys),
                               Append(new_df, [year |-> df_name.year,
                                               vals |-> df_name.vals]))

\* the year table of a chart function; range() of a NaN raises TypeError
build_new_df(agg, s, e) ==
    IF s.nan \/ e.nan THEN [ok |-> FALSE, err |-> "TypeError", cols |-> <<>>]
    ELSE concat_years(agg, year_range(s.val, e.val), <<>>)

\* DataFrame.plot.bar: pandas raises TypeError("no numeric data to plot") on
\* a frame without columns
plot_bar(cols) ==
    IF cols = <<>> THEN [ok |-> FALSE, err |-> "TypeError"]
    ELSE [ok |-> TRUE, err |-> "none"]

----------------------------------------------------------------------------
(* The run.                                                                *)

Init ==
    /\ file \in InputFiles
    /\ graph_type \in GraphTypes
    /\ pc = "read"
    /\ df = <<>>
    /\ start_year = NaN
    /\ end_year = NaN
    /\ amount_df = NotComputed
    /\ count_df = NotComputed
    /\ sum_table = NotBuilt
    /\ count_table = NotBuilt
    /\ pending = <<>>
    /\ shown = <<>>
    /\ err = "none"
    /\ failed_in = "none"

\* an uncaught exception ends the run
Raise(e) ==
    /\ err' = e
    /\ failed_in' = pc
    /\ pc' = "error"

\* main: df = read_csv_data('./data/hiyoshi.csv')
main_read_csv ==
    /\ pc = "read"
    /\ LET r == read_csv_data(file)
       IN  IF r.ok
           THEN /\ df' = r.df
                /\ pc' = "years"
                /\ UNCHANGED <<err, failed_in>>
           ELSE /\ Raise(r.err)
                /\ UNCHANGED df
    /\ UNCHANGED <<file, graph_type, start_year, end_year, amount_df, count_df,
                   sum_table, count_table, pending, shown>>

\* main: start_year, end_year and the choice of the chart functions
main_years ==
    /\ pc = "years"
    /\ start_year' = year_min(df)
    /\ end_year' = year_max(df)
    /\ pc' = IF graph_type = "plt" THEN "plot_rain_fall_plt"
                                   ELSE "plot_original_data_px"
    /\ UNCHANGED <<file, graph_type, df, amount_df, count_df, sum_table,
                   count_table, pending, shown, err, failed_in>>

\* plot_rain_fall_plt: the figure is created but not shown (plt.show() is
\* commented out)
plot_rain_fall_plt ==
    /\ pc = "plot_rain_fall_plt"
    /\ LET agg == resample(df, "sum")
           t   == build_new_df(agg, start_year, end_year)
           r   == plot_bar(t.cols)
       IN  /\ amount_df' = [computed |-> TRUE, rows |-> agg]
           /\ IF ~t.ok
              THEN /\ Raise(t.err)
                   /\ UNCHANGED <<sum_table, pending>>
              ELSE /\ sum_table' = [built |-> TRUE, cols |-> t.cols]
                   /\ IF ~r.ok
                      THEN /\ Raise(r.err)
                           /\ UNCHANGED pending
                      ELSE /\ pending' = Append(pending, "rain_amount")
                           /\ pc' = "plot_rainy_days_plt"
                           /\ UNCHANGED <<err, failed_in>>
    /\ UNCHANGED <<file, graph_type, df, start_year, end_year, count_df,
                   count_table, shown>>

\* plot_rainy_days_plt(df, start_year, end_year, 1): plt.show() displays
\* every figure created so far
plot_rainy_days_plt ==
    /\ pc = "plot_rainy_days_plt"
    /\ LET rf  == PltThreshold
           agg == resample(filter_above(df, rf), "count")
           t   == build_new_df(agg, start_year, end_year)
           r   == plot_bar(t.cols)
       IN  /\ count_df' = [computed |-> TRUE, rows |-> agg]
           /\ IF ~t.ok
              THEN /\ Raise(t.err)
                   /\ UNCHANGED <<count_table, pending, shown>>
              ELSE /\ count_table' = [built |-> TRUE, cols |-> t.cols]
                   /\ IF ~r.ok
                      THEN /\ Raise(r.err)
                           /\ UNCHANGED <<pending, shown>>
                      ELSE /\ shown' = shown \o Append(pending, "rainy_days")
                           /\ pending' = <<>>
                           /\ pc' = "done"
                           /\ UNCHANGED <<err, failed_in>>
    /\ UNCHANGED <<file, graph_type, df, start_year, end_year, amount_df,
                   sum_table>>

\* plot_original_data_px: px.line of the loaded frame, shown at once
plot_original_data_px ==
    /\ pc = "plot_original_data_px"
    /\ shown' = Append(shown, "original")
    /\ pc' = "plot_rain_amount_px"
    /\ UNCHANGED <<file, graph_type, df, start_year, end_year, amount_df,
                   count_df, sum_table, count_table, pending, err, failed_in>>

\* plot_rain_amount_px: px.bar of the table, shown at once
plot_rain_amount_px ==
    /\ pc = "plot_rain_amount_px"
    /\ LET agg == resample(df, "sum")
           t   == build_new_df(agg, start_year, end_year)
       IN  /\ amount_df' = [computed |-> TRUE, rows |-> agg]
           /\ IF ~t.ok
              THEN /\ Raise(t.err)
                   /\ UNCHANGED <<sum_table, shown>>
              ELSE /\ sum_table' = [built |-> TRUE, cols |-> t.cols]
                   /\ shown' = Append(shown, "rain_amount")
                   /\ pc' = "plot_rainy_days_px"
                   /\ UNCHANGED <<err, failed_in>>
    /\ UNCHANGED <<file, graph_type, df, start_year, end_year, count_df,
                   count_table, pending>>

\* plot_rainy_days_px: rows above the literal 0; px.bar of the table, shown
\* at once
plot_rainy_days_px ==
    /\ pc = "plot_rainy_days_px"
    /\ LET agg == resample(filter_above(df, PxThreshold), "count")
           t   == build_new_df(agg, start_year, end_year)
       IN  /\ count_df' = [computed |-> TRUE, rows |-> agg]
           /\ IF ~t.ok
              THEN /\ Raise(t.err)
                   /\ UNCHANGED <<count_table, shown>>
              ELSE /\ count_table' = [built |-> TRUE, cols |-> t.cols]
                   /\ shown' = Append(shown, "rainy_days")
                   /\ pc' = "done"
                   /\ UNCHANGED <<err, failed_in>>
    /\ UNCHANGED <<file, graph_type, df, start_year, end_year, amount_df,
                   sum_table, pending>>

Next ==
    \/ main_read_csv
    \/ main_years
    \/ plot_rain_fall_plt
    \/ plot_rainy_days_plt
    \/ plot_original_data_px
    \/ plot_rain_amount_px
    \/ plot_rainy_days_px

Spec == Init /\ [][Next]_vars

----------------------------------------------------------------------------
(* Vocabulary of the properties.                                           *)

IsLeap(y) == (y % 4 = 0 /\ y % 100 # 0) \/ y % 400 = 0

DaysInMonth(y, m) ==
    IF m = 2 THEN (IF IsLeap(y) THEN 29 ELSE 28)
    ELSE IF m \in {4, 6, 9, 11} THEN 30 ELSE 31

\* positions of the rows of frame dated in month m of year y
RowsIn(frame, y, m) ==
    {i \in DOMAIN frame : /\ frame[i].y = y
                          /\ frame[i].m = m
                          /\ frame[i].d \in 1..DaysInMonth(y, m)}

RECURSIVE SumAt(_, _)
SumAt(frame, S) ==
    IF S = {} THEN 0
    ELSE LET i == CHOOSE j \in S : TRUE
         IN  frame[i].v + SumAt(frame, S \ {i})

\* positions of the entries of an aggregate for month m of year y
EntriesFor(agg, y, m) == {k \in DOMAIN agg : agg[k].y = y /\ agg[k].m = m}

YearsOf(frame) == {frame[i].y : i \in DOMAIN frame}

MonthsOf(frame) == {MonthIndex(frame[i].y, frame[i].m) : i \in DOMAIN frame}

\* the threshold the rainy-day chart of the run's mode counts above
ThresholdUsed == IF graph_type = "plt" THEN PltThreshold ELSE PxThreshold

Before(a, b) ==
    \/ a.y < b.y
    \/ a.y = b.y /\ a.m < b.m
    \/ a.y = b.y /\ a.m = b.m /\ a.d <= b.d

----------------------------------------------------------------------------
(* C1 *)

\* every call of create_year_df a chart function makes returns 12 positions
ExtractsAll(a) ==
    (a.computed /\ ~start_year.nan /\ ~end_year.nan) =>
        \A y \in start_year.val..(end_year.val - 1) :
            LET r == create_year_df(a.rows, y)
            IN  r.ok /\ Len(r.vals) = MonthLabels

\* C1: for every monthly aggregate the program computes and every year it
\* pivots, create_year_df returns normally with exactly 12 positions, also
\* when the aggregate holds fewer than 12 entries for that year.
C1_ExtractYearAlwaysTwelve == ExtractsAll(amount_df) /\ ExtractsAll(count_df)

----------------------------------------------------------------------------
(* C2 *)

\* C2: the count aggregate has an entry with value 0 for every month that
\* contains a row of the Series but no row above the threshold, the first
\* and the last month of the Series included.
C2_ZeroCountPresent ==
    count_df.computed =>
        \A i \in DOMAIN df :
            (\A j \in RowsIn(df, df[i].y, df[i].m) : df[j].v <= ThresholdUsed) =>
                \E k \in EntriesFor(count_df.rows, df[i].y, df[i].m) :
                    count_df.rows[k].val = 0

----------------------------------------------------------------------------
(* C3 *)

ColumnsAreYearRange(t) ==
    (t.built /\ df # <<>>) =>
        LET s == SetMin(YearsOf(df))
            e == SetMax(YearsOf(df))
        IN  /\ Len(t.cols) = e - s
            /\ \A i \in DOMAIN t.cols : t.cols[i].year = s + i - 1

\* C3: a year table a chart function has built holds exactly one column per
\* year from the minimum year of the Series up to, not including, its
\* maximum year, in ascending order.
C3_ColumnsHalfOpenAscending ==
    ColumnsAreYearRange(sum_table) /\ ColumnsAreYearRange(count_table)

\* both tables built with two year columns
C3_Witness ==
    /\ sum_table.built /\ Len(sum_table.cols) = 2
    /\ count_table.built /\ Len(count_table.cols) = 2

----------------------------------------------------------------------------
(* C4 *)

\* C4: the monthly sum has exactly one entry for every month from the first
\* to the last month of the Series, none outside, and each entry is the sum
\* of the rows dated in that month (0 for a month without rows).
C4_MonthlySumEntries ==
    (amount_df.computed /\ df # <<>>) =>
        LET agg == amount_df.rows
            lo  == SetMin(MonthsOf(df))
            hi  == SetMax(MonthsOf(df))
        IN  /\ \A k \in DOMAIN agg :
                 /\ agg[k].m \in 1..MonthLabels
                 /\ MonthIndex(agg[k].y, agg[k].m) \in lo..hi
                 /\ agg[k].val = SumAt(df, RowsIn(df, agg[k].y, agg[k].m))
            /\ \A y \in (SetMin(YearsOf(df)) - 1)..(SetMax(YearsOf(df)) + 1) :
                 \A m \in 1..MonthLabels :
                    Cardinality(EntriesFor(agg, y, m)) =
                        IF MonthIndex(y, m) \in lo..hi THEN 1 ELSE 0

\* a monthly sum with a month of rain, and a month without rows between the
\* first and the last month
C4_Witness ==
    /\ amount_df.computed
    /\ \E k \in DOMAIN amount_df.rows : amount_df.rows[k].val > 0
    /\ \E k \in DOMAIN amount_df.rows :
          /\ RowsIn(df, amount_df.rows[k].y, amount_df.rows[k].m) = {}
          /\ amount_df.rows[k].val = 0

----------------------------------------------------------------------------
(* C5 *)

EmptyInput == file.exists /\ file.rows = <<>>

\* C5 as stated: a run over a Series without rows ends in the error state at
\* the point where start and end year are computed.
C5_FailsAtYears ==
    (EmptyInput /\ pc = "error") => failed_in = "years"

\* C5: a run over a file without rows ends in the error state inside the
\* loader, before start and end year are computed and before any
\* aggregation, pivot or render step.
C5_EmptyFailsInLoader ==
    (EmptyInput /\ pc # "read") =>
        /\ pc = "error"
        /\ failed_in = "read"
        /\ err = "EmptyDataError"
        /\ start_year = NaN /\ end_year = NaN
        /\ ~amount_df.computed /\ ~count_df.computed
        /\ ~sum_table.built /\ ~count_table.built
        /\ pending = <<>> /\ shown = <<>>

C5_Witness == EmptyInput /\ pc = "error"

----------------------------------------------------------------------------
(* C6 *)

\* C6: when a step of the run fails, no chart has been displayed earlier in
\* that run.
C6_NoPartialOutput == pc = "error" => shown = <<>>

----------------------------------------------------------------------------
(* C7 *)

\* C7: the Series returned by the loader is in ascending timestamp order.
C7_LoadedSeriesSorted ==
    \A i \in DOMAIN df : \A j \in DOMAIN df : i < j => Before(df[i], df[j])

----------------------------------------------------------------------------
(* C8 *)

\* C8: every value of the count aggregate is a natural number, at most the
\* number of days of its month, and is the number of rows of that month
\* whose value is strictly above the threshold.
C8_CountWithinMonth ==
    count_df.computed =>
        \A k \in DOMAIN count_df.rows :
            LET e == count_df.rows[k]
            IN  /\ e.val \in Nat
                /\ e.val <= DaysInMonth(e.y, e.m)
                /\ e.val = Cardinality({i \in RowsIn(df, e.y, e.m) :
                                           df[i].v > ThresholdUsed})

----------------------------------------------------------------------------
(* C9 *)

PlacedUnderOwnMonth(a) ==
    a.computed =>
        \A y \in {a.rows[k].y : k \in DOMAIN a.rows} :
            LET r == create_year_df(a.rows, y)
            IN  r.ok =>
                  /\ DOMAIN r.vals = 1..MonthLabels
                  /\ \A i \in 1..MonthLabels :
                        \E n \in EntriesFor(a.rows, r.year, i) :
                            r.vals[i] = a.rows[n].val

\* C9: the value create_year_df places under month label i is the
\* aggregate's value for calendar month i of that year, for each of the 12
\* labels and for both aggregates.
C9_ValueUnderOwnMonth ==
    PlacedUnderOwnMonth(amount_df) /\ PlacedUnderOwnMonth(count_df)

\* a count table with a column whose January and February cells differ
C9_Witness ==
    /\ count_table.built
    /\ \E c \in DOMAIN count_table.cols :
          count_table.cols[c].vals[1] # count_table.cols[c].vals[2]

----------------------------------------------------------------------------
(* C10 *)

\* C10: in both modes the count table handed to the renderer is the table of
\* the rows above the default threshold 0.
C10_SameCountTable ==
    count_table.built =>
        LET t == build_new_df(resample(filter_above(df, DefaultThreshold), "count"),
                              start_year, end_year)
        IN  t.ok /\ t.cols = count_table.cols

====
